---- MODULE Spec2Model ----
(***************************************************************************)
(* A model of swift3's object controller (swift3/controllers/obj.py) and   *)
(* of its XML helpers (swift3/etree.py).                                    *)
(*                                                                         *)
(* Spec     : one object request at a time, split at the backend calls:    *)
(*            every action is one backend call together with the code that *)
(*            runs up to the next call (or to the return / raise).         *)
(* SpecTree : element text assignment and tostring(encoding_type).         *)
(* SpecNs   : tostring(use_s3ns) / fromstring / cleanup_namespaces.        *)
(*                                                                         *)
(* Names (header names, container and object names) are sequences of       *)
(* tokens, so that prefix and suffix operations are computed.  Header      *)
(* names are written in the normal form the header dictionaries give them. *)
(***************************************************************************)
EXTENDS Integers, Sequences, FiniteSets, TLC

VARIABLES pc, req, locals, resp, backend_resp, outcome, calls,
          tree, assigned, out,
          ns_tree, ns_doc, ns_phase

obj_vars  == <<pc, req, locals, resp, backend_resp, outcome, calls>>
tree_vars == <<tree, assigned, out>>
ns_vars   == <<ns_tree, ns_doc, ns_phase>>
vars      == <<obj_vars, tree_vars, ns_vars>>

(***************************************************************************)
(* Bounds of the model.                                                    *)
(***************************************************************************)
MaxLen    == 3      \* object lengths are 0..MaxLen
MaxPos    == 2      \* byte positions written in a Range header are 0..MaxPos
MaxMeta   == 2      \* user-metadata headers a backend response may carry
MaxChunks == 2      \* chunks of a streamed bulk-delete report
MaxText   == 2      \* characters of a text assigned to an element

(***************************************************************************)
(* Program constants.                                                      *)
(***************************************************************************)
HTTP_OK              == 200
HTTP_PARTIAL_CONTENT == 206
HTTP_NO_CONTENT      == 204

None == "None"

\* swift3.utils.VERSIONING_SUFFIX: the fixed suffix of the versioning container
VERSIONING_SUFFIX == <<"+versioning">>

\* swift3.utils.versioned_object_name: folds the version id into the name
versioned_object_name(object_name, version_id) ==
    object_name \o <<"/", version_id>>

startswith(s, p) == Len(s) >= Len(p) /\ SubSeq(s, 1, Len(p)) = p

Has(h, k) == k \in DOMAIN h

\* h[k] = v on a mapping (the key is added when it is not there)
Put(h, k, v) == [x \in (DOMAIN h) \cup {k} |-> IF x = k THEN v ELSE h[x]]

\* del h[k]
Del(h, k) == [x \in (DOMAIN h) \ {k} |-> h[x]]

EmptyMap == [x \in {} |-> None]

CONTENT_LENGTH == <<"content", "length">>
CONTENT_RANGE  == <<"content", "range">>
CONTENT_TYPE   == <<"content", "type">>
RANGE          == <<"range">>
COPY_SOURCE       == <<"x", "amz", "copy", "source">>
COPY_SOURCE_RANGE == <<"x", "amz", "copy", "source", "range">>
X_TIMESTAMP    == <<"x", "timestamp">>
META_PREFIX    == <<"x", "amz", "meta">>
META_DELETED   == <<"x", "amz", "meta", "deleted">>
ETAG           == <<"etag">>
VERSION_ID     == <<"versionId">>

NoResp == [status |-> 0, headers |-> EmptyMap, app_iter |-> <<>>]
NoOutcome == [kind |-> "none", exc |-> "", msg |-> ""]
Returned  == [kind |-> "resp", exc |-> "", msg |-> ""]
Raised(e, m) == [kind |-> "raise", exc |-> e, msg |-> m]

Call(op, r, ret) ==
    [op |-> op, container |-> r.container_name, object |-> r.object_name,
     ret |-> ret]

(***************************************************************************)
(* swift.common.swob.Range, as obj.py uses it.  A Range header is a unit   *)
(* and a list of specs <<first, last>>, -1 for a position left out.        *)
(***************************************************************************)
Positions == -1 .. MaxPos
RangeSpecs == Positions \X Positions
RangeHeaders ==
    {[unit |-> "bytes", specs |-> <<a>>] : a \in RangeSpecs}
    \cup {[unit |-> "bytes", specs |-> <<a, b>>] : a \in RangeSpecs, b \in RangeSpecs}
    \cup {[unit |-> "items", specs |-> << <<0, 1>> >>]}

SpecValid(s) ==
    /\ ~(s[1] = -1 /\ s[2] = -1)
    /\ (s[1] # -1 /\ s[2] # -1) => s[1] <= s[2]

\* Range(req_range): raises ValueError on a header it cannot parse
RangeParses(h) ==
    /\ h.unit = "bytes"
    /\ \A i \in 1 .. Len(h.specs) : SpecValid(h.specs[i])

\* one spec's share of ranges_for_length: the interval [start, end) or nothing
RangeFor(s, length) ==
    IF s[1] = -1
    THEN IF s[2] = 0 THEN <<>>
         ELSE IF s[2] > length THEN << <<0, length>> >>
         ELSE << <<length - s[2], length>> >>
    ELSE IF s[2] = -1
         THEN IF s[1] < length THEN << <<s[1], length>> >> ELSE <<>>
         ELSE IF s[1] < length
              THEN << <<s[1], IF s[2] + 1 < length THEN s[2] + 1 ELSE length>> >>
              ELSE <<>>

RECURSIVE ranges_for_length(_, _)
ranges_for_length(specs, length) ==
    IF specs = <<>> THEN <<>>
    ELSE RangeFor(Head(specs), length) \o ranges_for_length(Tail(specs), length)

content_range_header_value(start, stop, size) ==
    <<"bytes", ToString(start), ToString(stop - 1), ToString(size)>>

(***************************************************************************)
(* ObjectController._gen_head_range_resp                                    *)
(***************************************************************************)
\* _gen_head_range_resp leaving Content-Length as it was (line 53 left out)
GenHeadRangeResp_NoLengthRewrite(req_range, r) ==
    IF ~RangeParses(req_range) THEN [exc |-> "", resp |-> r]
    ELSE LET length == r.headers[CONTENT_LENGTH]
             ranges == ranges_for_length(req_range.specs, length)
         IN  IF ranges = <<>> THEN [exc |-> "InvalidRange", resp |-> r]
             ELSE IF Len(ranges) = 1
             THEN [exc |-> "",
                   resp |-> [r EXCEPT
                     !.headers = Put(r.headers, CONTENT_RANGE,
                        content_range_header_value(ranges[1][1], ranges[1][2], length)),
                     !.status = HTTP_PARTIAL_CONTENT]]
             ELSE [exc |-> "", resp |-> r]

\* _gen_head_range_resp without the refusal of an empty list (lines 46-47 left out)
GenHeadRangeResp_EmptyPassesThrough(req_range, r) ==
    IF ~RangeParses(req_range) THEN [exc |-> "", resp |-> r]
    ELSE LET length == r.headers[CONTENT_LENGTH]
             ranges == ranges_for_length(req_range.specs, length)
         IN  IF Len(ranges) = 1
             THEN [exc |-> "",
                   resp |-> [r EXCEPT
                     !.headers = Put(Put(r.headers, CONTENT_RANGE,
                        content_range_header_value(ranges[1][1], ranges[1][2], length)),
                        CONTENT_LENGTH, ranges[1][2] - ranges[1][1]),
                     !.status = HTTP_PARTIAL_CONTENT]]
             ELSE [exc |-> "", resp |-> r]

\* _gen_head_range_resp answering several intervals with the first (no test of len(ranges))
GenHeadRangeResp_FirstOfMany(req_range, r) ==
    IF ~RangeParses(req_range) THEN [exc |-> "", resp |-> r]
    ELSE LET length == r.headers[CONTENT_LENGTH]
             ranges == ranges_for_length(req_range.specs, length)
         IN  IF ranges = <<>> THEN [exc |-> "InvalidRange", resp |-> r]
             ELSE [exc |-> "",
                   resp |-> [r EXCEPT
                     !.headers = Put(Put(r.headers, CONTENT_RANGE,
                        content_range_header_value(ranges[1][1], ranges[1][2], length)),
                        CONTENT_LENGTH, ranges[1][2] - ranges[1][1]),
                     !.status = HTTP_PARTIAL_CONTENT]]

_gen_head_range_resp(req_range, r) ==
    IF ~RangeParses(req_range) THEN [exc |-> "", resp |-> r]
    ELSE LET length == r.headers[CONTENT_LENGTH]
             ranges == ranges_for_length(req_range.specs, length)
         IN  IF ranges = <<>> THEN [exc |-> "InvalidRange", resp |-> r]
             ELSE IF Len(ranges) = 1
             THEN [exc |-> "",
                   resp |-> [r EXCEPT
                     !.headers = Put(Put(r.headers, CONTENT_RANGE,
                        content_range_header_value(ranges[1][1], ranges[1][2], length)),
                        CONTENT_LENGTH, ranges[1][2] - ranges[1][1]),
                     !.status = HTTP_PARTIAL_CONTENT]]
             ELSE [exc |-> "", resp |-> r]

(***************************************************************************)
(* ObjectController.GETorHEAD after the backend answered, and HEAD          *)
(***************************************************************************)
OverrideKeys ==
    { <<"content", "type">>, <<"content", "language">>, <<"expires">>,
      <<"cache", "control">>, <<"content", "disposition">>,
      <<"content", "encoding">> }

ResponseParam(key) == <<"response">> \o key

\* lines 88-100: drop the body of a HEAD, fail on a soft-deleted object,
\* apply the response-* overrides
GETorHEAD_shape(r, rsp) ==
    LET r1 == IF r.method = "HEAD" THEN [rsp EXCEPT !.app_iter = <<>>] ELSE rsp
    IN  IF Has(r1.headers, META_DELETED)
        THEN [exc |-> "NoSuchKey", resp |-> r1]
        ELSE [exc |-> "",
              resp |-> [r1 EXCEPT !.headers =
                 [k \in (DOMAIN r1.headers)
                        \cup {k \in OverrideKeys : Has(r.params, ResponseParam(k))}
                   |-> IF k \in OverrideKeys /\ Has(r.params, ResponseParam(k))
                       THEN r.params[ResponseParam(k)]
                       ELSE r1.headers[k]]]]

\* lines 107-113
HEAD_shape(r, rsp) ==
    LET g == GETorHEAD_shape(r, rsp)
    IN  IF g.exc # "" THEN g
        ELSE IF Has(r.headers, RANGE)
             THEN _gen_head_range_resp(r.headers[RANGE], g.resp)
             ELSE g

Shape(r, rsp) == IF r.method = "HEAD" THEN HEAD_shape(r, rsp) ELSE GETorHEAD_shape(r, rsp)

(***************************************************************************)
(* Requests and backend answers                                            *)
(***************************************************************************)
VersionIds == {"v1", "v2"}
\* the versionId query parameter: left out, empty, the literal null, or an id
VersionIdParams == {None, "", "null"} \cup VersionIds

NoReq == [method |-> "", container_name |-> <<>>, object_name |-> <<>>,
          params |-> EmptyMap, headers |-> EmptyMap]
NoLocals == [object_name |-> <<>>, version_id |-> None, query |-> EmptyMap,
             req_timestamp |-> None]

Request(method, params, headers) ==
    [method |-> method, container_name |-> <<"bucket">>,
     object_name |-> <<"obj">>, params |-> params, headers |-> headers]

\* a mapping with the keys of ks, each bound to v
Const(ks, v) == [k \in ks |-> v]

\* the union of two mappings with disjoint keys
Merge(f, g) == [k \in (DOMAIN f) \cup (DOMAIN g) |-> IF k \in DOMAIN f THEN f[k] ELSE g[k]]

Chunks(n) == [i \in 1 .. n |-> <<"chunk", ToString(i)>>]

MetaKey(i) == META_PREFIX \o <<ToString(i)>>

\* what the backend answers a GET or HEAD of an existing object with
ObjectResponses ==
    {[status |-> HTTP_OK,
      headers |-> Merge(Merge(Const({CONTENT_LENGTH}, l),
                              Const({CONTENT_TYPE, ETAG}, "backend")),
                        Const(IF d THEN {META_DELETED} ELSE {}, "true")),
      app_iter |-> Chunks(IF l > 0 THEN 1 ELSE 0)]
       : l \in 0 .. MaxLen, d \in BOOLEAN}

\* what the backend answers a PUT with
PutResponses ==
    {[status |-> s,
      headers |-> Merge(Const({ETAG} \cup x, "backend"),
                        Const({MetaKey(i) : i \in 1 .. m}, "user")),
      app_iter |-> <<>>]
       : s \in {200, 201}, m \in 0 .. MaxMeta,
         x \in SUBSET {<<"x", "amz", "version", "id">>, <<"x", "amz", "metadata">>}}

\* what the backend answers a DELETE with
DeleteResponses ==
    {[status |-> s, headers |-> Const({CONTENT_TYPE}, "backend"),
      app_iter |-> Chunks(n)]
       : s \in {HTTP_OK, HTTP_NO_CONTENT}, n \in 0 .. MaxChunks}

BackendErrors == {"NoSuchKey", "AccessDenied"}

\* get_object_info's answer, read as info.get('sysmeta', {}).get('version-id')
ObjectInfos ==
    {[sysmeta |-> FALSE, version_id |-> None]}
    \cup {[sysmeta |-> TRUE, version_id |-> v] : v \in {None} \cup VersionIds}
InfoVersionId(info) == IF info.sysmeta THEN info.version_id ELSE None

\* a request is handled by a call of its own, on a controller at rest
Idle == pc = "idle"

Finish(o, r) ==
    /\ pc' = "done"
    /\ outcome' = o
    /\ resp' = r

(***************************************************************************)
(* ObjectController.GETorHEAD, GET and HEAD                                 *)
(***************************************************************************)
Versioned(version_id) == version_id \notin {None, ""} /\ version_id # "null"

\* lines 64-70: a new GET or HEAD request; the target is rewritten for a
\* version id
GETorHEAD_rewrite(method, vid, overrides, headers) ==
    /\ Idle
    /\ LET params == Merge(Const(IF vid = None THEN {} ELSE {VERSION_ID}, vid),
                           Const({ResponseParam(k) : k \in overrides}, "forced"))
           r == Request(method, params, headers)
       IN  /\ locals' = [NoLocals EXCEPT !.object_name = r.object_name,
                                         !.version_id = vid]
           /\ req' = IF Versioned(vid)
                     THEN [r EXCEPT
                            !.container_name = r.container_name \o VERSIONING_SUFFIX,
                            !.object_name = versioned_object_name(r.object_name, vid),
                            !.params = Del(r.params, VERSION_ID)]
                     ELSE r
    /\ pc' = "GETorHEAD_fetch"
    /\ resp' = NoResp /\ backend_resp' = NoResp /\ outcome' = NoOutcome
    /\ calls' = <<>>

\* the end of GETorHEAD and of HEAD, once the backend returned rsp
GETorHEAD_return(rsp) ==
    LET s == Shape(req, rsp)
    IN  /\ backend_resp' = rsp
        /\ Finish(IF s.exc = "" THEN Returned ELSE Raised(s.exc, ""), s.resp)

\* lines 72-81 (and 85-86 when no fallback applies)
GETorHEAD_fetch_returns(rsp) ==
    /\ pc = "GETorHEAD_fetch"
    /\ calls' = Append(calls, Call("get_response", req, "resp"))
    /\ GETorHEAD_return(rsp)
    /\ UNCHANGED <<req, locals>>

GETorHEAD_fetch_raises(e) ==
    /\ pc = "GETorHEAD_fetch"
    /\ calls' = Append(calls, Call("get_response", req, e))
    /\ IF e = "NoSuchKey" /\ Versioned(locals.version_id)
       THEN /\ req' = [req EXCEPT
                        !.container_name =
                            SubSeq(req.container_name, 1,
                                   Len(req.container_name) - Len(VERSIONING_SUFFIX)),
                        !.object_name = locals.object_name]
            /\ pc' = "GETorHEAD_info"
            /\ UNCHANGED <<resp, outcome>>
       ELSE /\ Finish(Raised(e, ""), NoResp)
            /\ UNCHANGED req
    /\ UNCHANGED <<locals, backend_resp>>

\* lines 82-86: the object info decides between the fallback and the re-raise
\* GETorHEAD_info falling back on any stored version id
GETorHEAD_info_anyversion(info) ==
    /\ pc = "GETorHEAD_info"
    /\ calls' = Append(calls, Call("get_object_info", req, InfoVersionId(info)))
    /\ IF InfoVersionId(info) # None
       THEN pc' = "GETorHEAD_fallback" /\ UNCHANGED <<resp, outcome>>
       ELSE Finish(Raised("NoSuchKey", ""), NoResp)
    /\ UNCHANGED <<req, locals, backend_resp>>

GETorHEAD_info(info) ==
    /\ pc = "GETorHEAD_info"
    /\ calls' = Append(calls, Call("get_object_info", req, InfoVersionId(info)))
    /\ IF InfoVersionId(info) = locals.version_id
       THEN pc' = "GETorHEAD_fallback" /\ UNCHANGED <<resp, outcome>>
       ELSE Finish(Raised("NoSuchKey", ""), NoResp)
    /\ UNCHANGED <<req, locals, backend_resp>>

GETorHEAD_info_raises(e) ==
    /\ pc = "GETorHEAD_info"
    /\ calls' = Append(calls, Call("get_object_info", req, e))
    /\ Finish(Raised(e, ""), NoResp)
    /\ UNCHANGED <<req, locals, backend_resp>>

\* line 84: the fetch of the current object
GETorHEAD_fallback_returns(rsp) ==
    /\ pc = "GETorHEAD_fallback"
    /\ calls' = Append(calls, Call("get_response", req, "resp"))
    /\ GETorHEAD_return(rsp)
    /\ UNCHANGED <<req, locals>>

GETorHEAD_fallback_raises(e) ==
    /\ pc = "GETorHEAD_fallback"
    /\ calls' = Append(calls, Call("get_response", req, e))
    /\ Finish(Raised(e, ""), NoResp)
    /\ UNCHANGED <<req, locals, backend_resp>>

(***************************************************************************)
(* ObjectController.PUT                                                     *)
(***************************************************************************)
Timestamps == {"t1", "t2"}

\* S3Timestamp.internal and S3Timestamp.s3xmlformat: two renderings of a time
internal(t) == <<"internal", t>>
s3xmlformat(t) == <<"s3xmlformat", t>>

\* Response.append_copy_resp_body: attaches the XML copy result
append_copy_resp_body(rsp, controller_name, last_modified) ==
    [rsp EXCEPT !.app_iter =
        << <<"Copy" \o controller_name \o "Result", "LastModified">>
           \o last_modified \o <<"ETag">> >>]

IllegalCopy(h) == \A k \in {COPY_SOURCE, COPY_SOURCE_RANGE} : Has(h, k)

\* PUT_begin without the refusal of a ranged copy (lines 130-134 left out)
PUT_begin_any(t, hdrs) ==
    /\ Idle
    /\ req' = Request("PUT", EmptyMap, Put(hdrs, X_TIMESTAMP, internal(t)))
    /\ locals' = [NoLocals EXCEPT !.req_timestamp = t]
    /\ calls' = << Call("stamp", Request("PUT", EmptyMap, hdrs), "") >>
    /\ backend_resp' = NoResp
    /\ pc' = "PUT_check" /\ resp' = NoResp /\ outcome' = NoOutcome

\* lines 128-134: a new PUT request; X-Timestamp is stamped, a ranged copy
\* is refused
PUT_begin(t, hdrs) ==
    /\ Idle
    /\ req' = Request("PUT", EmptyMap, Put(hdrs, X_TIMESTAMP, internal(t)))
    /\ locals' = [NoLocals EXCEPT !.req_timestamp = t]
    /\ calls' = << Call("stamp", Request("PUT", EmptyMap, hdrs), "") >>
    /\ backend_resp' = NoResp
    /\ IF IllegalCopy(req'.headers)
       THEN Finish(Raised("InvalidArgument", "Illegal copy header"), NoResp)
       ELSE pc' = "PUT_check" /\ resp' = NoResp /\ outcome' = NoOutcome

\* line 135
PUT_check_returns ==
    /\ pc = "PUT_check"
    /\ calls' = Append(calls, Call("check_copy_source", req, "ok"))
    /\ pc' = "PUT_write"
    /\ UNCHANGED <<req, locals, resp, backend_resp, outcome>>

\* PUT_check_raises with the exception swallowed
PUT_check_raises_goes_on(e) ==
    /\ pc = "PUT_check"
    /\ calls' = Append(calls, Call("check_copy_source", req, e))
    /\ pc' = "PUT_write"
    /\ UNCHANGED <<req, locals, resp, backend_resp, outcome>>

PUT_check_raises(e) ==
    /\ pc = "PUT_check"
    /\ calls' = Append(calls, Call("check_copy_source", req, e))
    /\ Finish(Raised(e, ""), NoResp)
    /\ UNCHANGED <<req, locals, backend_resp>>

\* lines 138-148 on the response of the write
\* PUT_shape without the loop that deletes the user metadata (lines 143-145)
PUT_shape_keeps_meta(r, t, rsp) ==
    LET r1 == IF Has(r.headers, COPY_SOURCE)
              THEN append_copy_resp_body(rsp, "Object", s3xmlformat(t))
              ELSE rsp
    IN  [r1 EXCEPT !.status = HTTP_OK]

PUT_shape(r, t, rsp) ==
    LET r1 == IF Has(r.headers, COPY_SOURCE)
              THEN LET r0 == append_copy_resp_body(rsp, "Object", s3xmlformat(t))
                   IN  [r0 EXCEPT !.headers =
                          [k \in {x \in DOMAIN r0.headers : ~startswith(x, META_PREFIX)}
                             |-> r0.headers[k]]]
              ELSE rsp
    IN  [r1 EXCEPT !.status = HTTP_OK]

\* lines 136-148
PUT_write_returns(rsp) ==
    /\ pc = "PUT_write"
    /\ calls' = Append(calls, Call("get_response", req, "resp"))
    /\ backend_resp' = rsp
    /\ Finish(Returned, PUT_shape(req, locals.req_timestamp, rsp))
    /\ UNCHANGED <<req, locals>>

PUT_write_raises(e) ==
    /\ pc = "PUT_write"
    /\ calls' = Append(calls, Call("get_response", req, e))
    /\ Finish(Raised(e, ""), NoResp)
    /\ UNCHANGED <<req, locals, backend_resp>>

(***************************************************************************)
(* ObjectController.POST                                                    *)
(***************************************************************************)
POST ==
    /\ Idle
    /\ req' = Request("POST", EmptyMap, EmptyMap)
    /\ locals' = NoLocals
    /\ calls' = <<>>
    /\ backend_resp' = NoResp
    /\ Finish(Raised("S3NotImplemented", ""), NoResp)

(***************************************************************************)
(* ObjectController.DELETE                                                  *)
(***************************************************************************)
DeleteQuery == Const({<<"multipart", "manifest">>}, "delete")
Queries == {EmptyMap, DeleteQuery}

\* lines 159-160: a new DELETE request; the expansion query is asked for and
\* the client's content type dropped
DELETE_begin(hdrs, query) ==
    /\ Idle
    /\ req' = Request("DELETE", EmptyMap, Put(hdrs, CONTENT_TYPE, None))
    /\ locals' = [NoLocals EXCEPT !.query = query]
    /\ calls' = << Call("gen_multipart_manifest_delete_query",
                        Request("DELETE", EmptyMap, hdrs), "query") >>
    /\ pc' = "DELETE_send"
    /\ resp' = NoResp /\ backend_resp' = NoResp /\ outcome' = NoOutcome

DELETE_begin_raises(hdrs, e) ==
    /\ Idle
    /\ req' = Request("DELETE", EmptyMap, hdrs)
    /\ locals' = NoLocals
    /\ calls' = << Call("gen_multipart_manifest_delete_query",
                        Request("DELETE", EmptyMap, hdrs), e) >>
    /\ backend_resp' = NoResp
    /\ Finish(Raised(e, ""), NoResp)

\* lines 161-162 (and 167 when nothing is to drain)
DELETE_send_returns(rsp) ==
    /\ pc = "DELETE_send"
    /\ calls' = Append(calls, Call("get_response", req, "resp"))
    /\ backend_resp' = rsp
    /\ IF locals.query # EmptyMap /\ rsp.status = HTTP_OK
       THEN pc' = "DELETE_drain" /\ resp' = rsp /\ UNCHANGED outcome
       ELSE Finish(Returned, rsp)
    /\ UNCHANGED <<req, locals>>

DELETE_send_raises(e) ==
    /\ pc = "DELETE_send"
    /\ calls' = Append(calls, Call("get_response", req, e))
    /\ Finish(Raised(e, ""), NoResp)
    /\ UNCHANGED <<req, locals, backend_resp>>

\* lines 163-164: one turn of the loop that drains the report
DELETE_drain_chunk ==
    /\ pc = "DELETE_drain"
    /\ resp.app_iter # <<>>
    /\ calls' = Append(calls, Call("read_chunk", req, Head(resp.app_iter)[2]))
    /\ resp' = [resp EXCEPT !.app_iter = Tail(resp.app_iter)]
    /\ UNCHANGED <<pc, req, locals, backend_resp, outcome>>

\* DELETE_normalize without waiting for the end of the report
DELETE_normalize_early ==
    /\ pc = "DELETE_drain"
    /\ Finish(Returned, [resp EXCEPT !.status = HTTP_NO_CONTENT, !.app_iter = <<>>])
    /\ UNCHANGED <<req, locals, backend_resp, calls>>

\* lines 165-167: the report is exhausted; status and body are replaced
DELETE_normalize ==
    /\ pc = "DELETE_drain"
    /\ resp.app_iter = <<>>
    /\ Finish(Returned, [resp EXCEPT !.status = HTTP_NO_CONTENT, !.app_iter = <<>>])
    /\ UNCHANGED <<req, locals, backend_resp, calls>>

(***************************************************************************)
(* The object controller's specification                                    *)
(***************************************************************************)
RequestRanges == {EmptyMap} \cup {Const({RANGE}, h) : h \in RangeHeaders}
PutHeaders ==
    {Const(ks, "client") : ks \in SUBSET {COPY_SOURCE, COPY_SOURCE_RANGE, CONTENT_TYPE}}
DeleteHeaders == {Const(ks, "client") : ks \in SUBSET {CONTENT_TYPE}}

ObjInit ==
    /\ pc = "idle"
    /\ req = NoReq
    /\ locals = NoLocals
    /\ resp = NoResp
    /\ backend_resp = NoResp
    /\ outcome = NoOutcome
    /\ calls = <<>>

(***************************************************************************)
(* etree: element text and tostring(encoding_type).                         *)
(* A text is a sequence of characters: "a" needs no quoting, "%" is quoted  *)
(* by urllib's quote, "ctl" is a control character, which lxml refuses.     *)
(* The texts are ASCII: utf8decode and utf8encode leave them as they are.   *)
(***************************************************************************)
URLENCODE_BLACKLIST ==
    {"LastModified", "ID", "DisplayName", "Initiated", "ContinuationToken",
     "NextContinuationToken", "ETag"}

Chars == {"a", "%", "ctl"}
Texts == UNION {[1 .. n -> Chars] : n \in 0 .. MaxText}

\* an element's text: None or a string
NoText == [isNone |-> TRUE, s |-> <<>>]
Str(s) == [isNone |-> FALSE, s |-> s]
TextValues == {NoText} \cup {Str(s) : s \in Texts}

QuoteChar(c) ==
    IF c = "%" THEN <<"%", "2", "5">>
    ELSE IF c = "ctl" THEN <<"%", "0", "1">>
    ELSE <<c>>

\* urllib's quote
RECURSIVE quote(_)
quote(s) == IF s = <<>> THEN <<>> ELSE QuoteChar(Head(s)) \o quote(Tail(s))

\* lxml refuses a text with control characters (ValueError)
XmlCompatible(s) == \A i \in 1 .. Len(s) : s[i] # "ctl"

\* the tree: a root and two children
Elements == {1, 2, 3}
Root == 1
TagOf == [e \in Elements |->
            IF e = 1 THEN "Contents" ELSE IF e = 2 THEN "Key" ELSE "ETag"]

NewElement == [text |-> NoText, urlencoded |-> FALSE]
NoOut == [done |-> FALSE, encoding_type |-> None, use_s3ns |-> FALSE,
          elems |-> [e \in Elements |-> NewElement]]

\* _Element._init (line 130) and the callers' elem.encoding_type = 'url'
SetEncodingType(v) ==
    /\ tree' = [tree EXCEPT !.encoding_type = v]
    /\ out' = NoOut
    /\ UNCHANGED assigned

\* _Element.text's setter on element e of a tree whose root has encoding_type
TextSetter(el, tag, encoding_type, value) ==
    IF value.isNone \/ XmlCompatible(value.s)
    THEN [ok |-> TRUE, el |-> [el EXCEPT !.text = value]]
    ELSE IF encoding_type # "url" \/ tag \in URLENCODE_BLACKLIST
         THEN [ok |-> FALSE, el |-> el]
         ELSE [ok |-> TRUE, el |-> [text |-> Str(quote(value.s)), urlencoded |-> TRUE]]

\* elem.text = value; assigned keeps the value of the last assignment that
\* did not raise
SetText(e, value) ==
    LET r == TextSetter(tree.elems[e], TagOf[e], tree.encoding_type, value)
    IN  /\ tree' = [tree EXCEPT !.elems[e] = r.el]
        /\ assigned' = IF r.ok THEN [assigned EXCEPT ![e] = value] ELSE assigned
        /\ out' = NoOut

\* lines 86-93: the root is rebuilt with the S3 namespace; its attributes and
\* text are carried over, its children copied
WithS3Namespace(elems) ==
    [e \in Elements |->
        IF e = Root
        THEN TextSetter([text |-> NoText, urlencoded |-> elems[e].urlencoded],
                        TagOf[e], None, elems[e].text).el
        ELSE elems[e]]

\* lines 95-107: the texts are quoted on a copy
UrlEncoded(elems) ==
    [e \in Elements |->
        IF TagOf[e] \notin URLENCODE_BLACKLIST /\ ~elems[e].text.isNone
        THEN IF elems[e].urlencoded
             THEN [elems[e] EXCEPT !.urlencoded = FALSE]
             ELSE [elems[e] EXCEPT !.text = Str(quote(elems[e].text.s))]
        ELSE elems[e]]

tostring(t, encoding_type, use_s3ns) ==
    LET t1 == IF use_s3ns THEN WithS3Namespace(t.elems) ELSE t.elems
        t2 == IF encoding_type = "url" THEN UrlEncoded(t1) ELSE t1
    IN  [done |-> TRUE, encoding_type |-> encoding_type, use_s3ns |-> use_s3ns,
         elems |-> t2]

Serialize(encoding_type, use_s3ns) ==
    /\ out' = tostring(tree, encoding_type, use_s3ns)
    /\ UNCHANGED <<tree, assigned>>

TreeInit ==
    /\ tree = [encoding_type |-> None, elems |-> [e \in Elements |-> NewElement]]
    /\ assigned = [e \in Elements |-> NoText]
    /\ out = NoOut

(***************************************************************************)
(* etree: namespaces.  A tag is a sequence of tokens, <<local>> or, in      *)
(* Clark's notation, <<"{", uri, "}", local>>.  A tree is a chain of nodes, *)
(* node n + 1 the child of node n; each node has a tag and the default      *)
(* namespace it declares ("" for none).  A document is the same chain as    *)
(* written on the wire: every node has the URI its prefix is bound to ("",  *)
(* when it has no prefix), its local name and the xmlns it declares.        *)
(***************************************************************************)
XMLNS_S3 == "http://s3.amazonaws.com/doc/2006-03-01/"
XMLNS_OTHER == "urn:other"
Uris == {XMLNS_S3, XMLNS_OTHER}

Nodes == {1, 2, 3}
LocalName == [n \in Nodes |-> IF n = 1 THEN "Root" ELSE IF n = 2 THEN "Child" ELSE "Leaf"]

Clark(uri, local) == IF uri = "" THEN <<local>> ELSE <<"{", uri, "}", local>>
Namespaced(tag) == Len(tag) > 1 /\ tag[1] = "{"
TagUri(tag) == IF Namespaced(tag) THEN tag[2] ELSE ""

\* a comment's tag is not a string
COMMENT == <<>>
IsElement(node) == node.tag # COMMENT

Trees ==
    {t \in [Nodes -> [tag : {Clark(u, "x") : u \in Uris \cup {""}} \cup {COMMENT},
                      nsdef : Uris \cup {""}]] :
        /\ \A n \in Nodes : t[n].tag # COMMENT => t[n].tag[Len(t[n].tag)] = "x"
        /\ \A n \in Nodes : t[n].tag = COMMENT => (n = 3 /\ t[n].nsdef = "")}

Named(t) ==
    [n \in Nodes |->
        IF t[n].tag = COMMENT THEN t[n]
        ELSE [t[n] EXCEPT !.tag = Clark(TagUri(t[n].tag), LocalName[n])]]

BuiltTrees == {Named(t) : t \in Trees}

Documents ==
    {d \in [Nodes -> [prefix_ns : Uris \cup {""}, xmlns : Uris \cup {""},
                      comment : BOOLEAN]] :
        \A n \in Nodes : d[n].comment => (n = 3 /\ d[n].prefix_ns = "" /\ d[n].xmlns = "")}

\* the default namespace in scope at node n: the nearest xmlns declared at n
\* or above it
RECURSIVE InScope(_, _)
InScope(decl, n) ==
    IF decl[n] # "" THEN decl[n]
    ELSE IF n = 1 THEN "" ELSE InScope(decl, n - 1)

DocDefault(d, n) == InScope([m \in Nodes |-> d[m].xmlns], n)
TreeDefault(t, n) == InScope([m \in Nodes |-> t[m].nsdef], n)

\* lxml.etree.fromstring: a prefixed name is in its prefix's namespace, an
\* unprefixed one in the default namespace in scope
LxmlParse(d) ==
    [n \in Nodes |->
        IF d[n].comment THEN [tag |-> COMMENT, nsdef |-> ""]
        ELSE [tag |-> Clark(IF d[n].prefix_ns # "" THEN d[n].prefix_ns
                            ELSE DocDefault(d, n), LocalName[n]),
              nsdef |-> d[n].xmlns]]

\* lxml.etree.tostring: a tag without a namespace is written as it is; a
\* namespaced one without a prefix when its namespace is the default in
\* scope, with a prefix bound to its namespace otherwise
LxmlSerialize(t) ==
    [n \in Nodes |->
        IF t[n].tag = COMMENT
        THEN [prefix_ns |-> "", xmlns |-> "", comment |-> TRUE]
        ELSE [prefix_ns |-> IF TagUri(t[n].tag) = TreeDefault(t, n) THEN ""
                            ELSE TagUri(t[n].tag),
              xmlns |-> t[n].nsdef, comment |-> FALSE]]

remove_ns(tag, ns) ==
    IF startswith(tag, <<"{", ns, "}">>)
    THEN SubSeq(tag, Len(<<"{", ns, "}">>) + 1, Len(tag))
    ELSE tag

\* cleanup_namespaces on one element: lines 48-53
\* CleanTag without the default namespace (lines 52-53 left out)
CleanTag_S3Only(t, n) == remove_ns(t[n].tag, XMLNS_S3)

CleanTag(t, n) ==
    LET tag == remove_ns(t[n].tag, XMLNS_S3)
    IN  IF TreeDefault(t, n) # "" THEN remove_ns(tag, TreeDefault(t, n)) ELSE tag

\* cleanup_namespaces(elem): elem and, through iterchildren, all below it
RECURSIVE cleanup_namespaces(_, _)
cleanup_namespaces(t, n) ==
    IF ~IsElement(t[n]) THEN t
    ELSE LET t1 == [t EXCEPT ![n].tag = CleanTag(t, n)]
         IN  IF n + 1 \in Nodes THEN cleanup_namespaces(t1, n + 1) ELSE t1

\* tostring (lines 86-93 and 109), the encoding type left aside
ns_tostring(t, use_s3ns) ==
    LxmlSerialize(IF use_s3ns THEN [t EXCEPT ![1].nsdef = XMLNS_S3] ELSE t)

NoTree == [n \in Nodes |-> [tag |-> COMMENT, nsdef |-> ""]]
NoDoc  == [n \in Nodes |-> [prefix_ns |-> "", xmlns |-> "", comment |-> TRUE]]
Phase(step, s3ns, plain, err) ==
    [step |-> step, use_s3ns |-> s3ns, plain |-> plain, error |-> err]

\* a tree the program builds with Element and SubElement
NsBuild(t) ==
    /\ ns_phase.step = "start"
    /\ ns_tree' = t
    /\ ns_doc' = NoDoc
    /\ ns_phase' = Phase("built", FALSE, FALSE, "")

\* tostring(tree, use_s3ns); plain records that no tag of the tree was in a
\* namespace other than S3's
NsToString(use_s3ns) ==
    /\ ns_phase.step \in {"built", "parsed"}
    /\ ns_doc' = ns_tostring(ns_tree, use_s3ns)
    /\ ns_phase' = Phase("serialized", use_s3ns,
                         \A n \in Nodes : TagUri(ns_tree[n].tag) \in {"", XMLNS_S3}, "")
    /\ UNCHANGED ns_tree

\* fromstring (lines 59-82) on d; validation answers valid when root_tag is
\* None, and otherwise what the schema of root_tag says
FromString(d, validation) ==
    /\ ns_doc' = d
    /\ IF validation = "valid"
       THEN /\ ns_tree' = cleanup_namespaces(LxmlParse(d), 1)
            /\ ns_phase' = [ns_phase EXCEPT !.step = "parsed", !.error = ""]
       ELSE /\ ns_tree' = NoTree
            /\ ns_phase' = [ns_phase EXCEPT !.step = "failed", !.error = validation]

\* fromstring(tostring(tree))
NsRoundTrip(validation) ==
    /\ ns_phase.step = "serialized"
    /\ FromString(ns_doc, validation)

\* fromstring on a request body
NsReceive(d, validation) ==
    /\ ns_phase.step = "start"
    /\ ns_phase' = Phase(IF validation = "valid" THEN "parsed" ELSE "failed",
                         FALSE, FALSE, IF validation = "valid" THEN "" ELSE validation)
    /\ ns_doc' = d
    /\ ns_tree' = IF validation = "valid"
                  THEN cleanup_namespaces(LxmlParse(d), 1) ELSE NoTree

\* lxml refuses a text that is not well-formed XML
NsReceiveMalformed ==
    /\ ns_phase.step = "start"
    /\ ns_phase' = Phase("failed", FALSE, FALSE, "XMLSyntaxError")
    /\ ns_doc' = NoDoc
    /\ ns_tree' = NoTree

NsInit ==
    /\ ns_tree = NoTree
    /\ ns_doc = NoDoc
    /\ ns_phase = Phase("start", FALSE, FALSE, "")

Validations == {"valid", "DocumentInvalid", "IOError"}

(***************************************************************************)
(* The specifications                                                      *)
(***************************************************************************)
Init == ObjInit /\ TreeInit /\ NsInit

ObjOnly  == UNCHANGED <<tree_vars, ns_vars>>
TreeOnly == UNCHANGED <<obj_vars, ns_vars>>
NsOnly   == UNCHANGED <<obj_vars, tree_vars>>

Next ==
    \/ /\ pc = "idle"
       /\ \E m \in {"GET", "HEAD"}, v \in VersionIdParams,
             o \in SUBSET {CONTENT_TYPE}, h \in RequestRanges :
               GETorHEAD_rewrite(m, v, o, h) /\ ObjOnly
    \/ /\ pc = "GETorHEAD_fetch"
       /\ \E r \in ObjectResponses : GETorHEAD_fetch_returns(r) /\ ObjOnly
    \/ /\ pc = "GETorHEAD_fetch"
       /\ \E e \in BackendErrors : GETorHEAD_fetch_raises(e) /\ ObjOnly
    \/ /\ pc = "GETorHEAD_info"
       /\ \E i \in ObjectInfos : GETorHEAD_info(i) /\ ObjOnly
    \/ /\ pc = "GETorHEAD_info"
       /\ \E e \in BackendErrors : GETorHEAD_info_raises(e) /\ ObjOnly
    \/ /\ pc = "GETorHEAD_fallback"
       /\ \E r \in ObjectResponses : GETorHEAD_fallback_returns(r) /\ ObjOnly
    \/ /\ pc = "GETorHEAD_fallback"
       /\ \E e \in BackendErrors : GETorHEAD_fallback_raises(e) /\ ObjOnly
    \/ /\ pc = "idle"
       /\ \E t \in Timestamps, h \in PutHeaders : PUT_begin(t, h) /\ ObjOnly
    \/ PUT_check_returns /\ ObjOnly
    \/ /\ pc = "PUT_check"
       /\ \E e \in BackendErrors : PUT_check_raises(e) /\ ObjOnly
    \/ /\ pc = "PUT_write"
       /\ \E r \in PutResponses : PUT_write_returns(r) /\ ObjOnly
    \/ /\ pc = "PUT_write"
       /\ \E e \in BackendErrors : PUT_write_raises(e) /\ ObjOnly
    \/ POST /\ ObjOnly
    \/ /\ pc = "idle"
       /\ \E h \in DeleteHeaders, q \in Queries : DELETE_begin(h, q) /\ ObjOnly
    \/ /\ pc = "idle"
       /\ \E h \in DeleteHeaders, e \in BackendErrors :
               DELETE_begin_raises(h, e) /\ ObjOnly
    \/ /\ pc = "DELETE_send"
       /\ \E r \in DeleteResponses : DELETE_send_returns(r) /\ ObjOnly
    \/ /\ pc = "DELETE_send"
       /\ \E e \in BackendErrors : DELETE_send_raises(e) /\ ObjOnly
    \/ DELETE_drain_chunk /\ ObjOnly
    \/ DELETE_normalize /\ ObjOnly

Spec == Init /\ [][Next]_vars

NextTree ==
    \/ \E v \in {None, "url"} : SetEncodingType(v) /\ TreeOnly
    \/ \E e \in Elements, v \in TextValues : SetText(e, v) /\ TreeOnly
    \/ \E enc \in {None, "url"}, ns \in BOOLEAN : Serialize(enc, ns) /\ TreeOnly

SpecTree == Init /\ [][NextTree]_vars

NextNs ==
    \/ /\ ns_phase.step = "start"
       /\ \E t \in BuiltTrees : NsBuild(t) /\ NsOnly
    \/ \E u \in BOOLEAN : NsToString(u) /\ NsOnly
    \/ \E v \in Validations : NsRoundTrip(v) /\ NsOnly
    \/ /\ ns_phase.step = "start"
       /\ \E d \in Documents, v \in Validations : NsReceive(d, v) /\ NsOnly
    \/ NsReceiveMalformed /\ NsOnly

SpecNs == Init /\ [][NextNs]_vars

(***************************************************************************)
(* Properties of the object controller (checked under Spec)                 *)
(***************************************************************************)
CallsOf(op) == {i \in 1 .. Len(calls) : calls[i].op = op}

HasMetaPrefix(k) == Len(k) >= 3 /\ k[1] = "x" /\ k[2] = "amz" /\ k[3] = "meta"

\* C1: a PUT with both X-Amz-Copy-Source and X-Amz-Copy-Source-Range fails
\* with InvalidArgument ('Illegal copy header'), and neither the copy-source
\* check nor the backend write is called, whatever the other headers are.
C1_IllegalCopyRejected ==
    (/\ req.method = "PUT"
     /\ Has(req.headers, COPY_SOURCE)
     /\ Has(req.headers, COPY_SOURCE_RANGE))
    => /\ pc = "done"
       /\ outcome = Raised("InvalidArgument", "Illegal copy header")
       /\ CallsOf("check_copy_source") = {}
       /\ CallsOf("get_response") = {}

C1_Witness ==
    /\ pc = "done"
    /\ req.method = "PUT"
    /\ Has(req.headers, COPY_SOURCE)
    /\ Has(req.headers, COPY_SOURCE_RANGE)
    /\ Has(req.headers, CONTENT_TYPE)
    /\ outcome.exc = "InvalidArgument"

\* a GET or HEAD with a version id whose version-qualified fetch raised
\* NoSuchKey, and which has ended
VersionedMiss ==
    /\ pc = "done"
    /\ req.method \in {"GET", "HEAD"}
    /\ locals.version_id \notin {None, "", "null"}
    /\ Len(calls) >= 1
    /\ calls[1].ret = "NoSuchKey"

InfoMatched ==
    /\ Len(calls) >= 2
    /\ calls[2].op = "get_object_info"
    /\ calls[2].ret = locals.version_id

\* C2 as claimed: after the version-qualified fetch raised NoSuchKey, the
\* handler returns the current object's response if and only if the object
\* info's version id equals the requested one.
C2_ReturnsIffInfoMatches ==
    VersionedMiss => (outcome.kind = "resp" <=> InfoMatched)

\* C2 as amended: the current object is fetched, against the original
\* container and object name, if and only if the info's version id equals the
\* requested one; the handler then ends as that fetch does (its response,
\* NoSuchKey when the response is marked deleted, or the error the fetch
\* raised; a ranged HEAD may still end with InvalidRange).  Otherwise nothing more is fetched and NoSuchKey is raised (or the
\* error get_object_info raised).  Without a version id there is no fallback.
C2_FallbackOnlyOnMatch ==
    /\ VersionedMiss =>
        /\ calls[1].container = <<"bucket", "+versioning">>
        /\ calls[1].object = <<"obj", "/", locals.version_id>>
        /\ Len(calls) >= 2
        /\ calls[2].op = "get_object_info"
        /\ calls[2].container = <<"bucket">>
        /\ calls[2].object = <<"obj">>
        /\ outcome.kind = "resp" => InfoMatched
        /\ InfoMatched <=> Len(calls) = 3
        /\ InfoMatched =>
            /\ calls[3].op = "get_response"
            /\ calls[3].container = <<"bucket">>
            /\ calls[3].object = <<"obj">>
            /\ req.container_name = <<"bucket">>
            /\ req.object_name = <<"obj">>
            /\ ~Has(req.params, VERSION_ID)
            /\ IF calls[3].ret # "resp" THEN outcome = Raised(calls[3].ret, "")
               ELSE IF Has(backend_resp.headers, META_DELETED)
                    THEN outcome = Raised("NoSuchKey", "")
                    ELSE IF req.method = "GET" \/ ~Has(req.headers, RANGE)
                         THEN outcome = Returned
                         ELSE outcome \in {Returned, Raised("InvalidRange", "")}
        /\ ~InfoMatched =>
            /\ Len(calls) = 2
            /\ outcome = Raised(IF calls[2].ret \in BackendErrors
                                THEN calls[2].ret ELSE "NoSuchKey", "")
    /\ (/\ pc = "done"
        /\ req.method \in {"GET", "HEAD"}
        /\ locals.version_id \in {None, "", "null"}
        /\ calls[1].ret = "NoSuchKey")
       => (Len(calls) = 1 /\ outcome = Raised("NoSuchKey", ""))

C2_Witness ==
    /\ VersionedMiss
    /\ InfoMatched
    /\ outcome.kind = "resp"
    /\ req.method = "GET"
    /\ resp.app_iter # <<>>

\* a HEAD with a Range header whose GETorHEAD part returned a response
RangedHead ==
    /\ pc = "done"
    /\ req.method = "HEAD"
    /\ Has(req.headers, RANGE)
    /\ backend_resp # NoResp
    /\ ~Has(backend_resp.headers, META_DELETED)

ObjectLength == backend_resp.headers[CONTENT_LENGTH]

Resolved ==
    IF RangeParses(req.headers[RANGE])
    THEN ranges_for_length(req.headers[RANGE].specs, ObjectLength)
    ELSE <<>>

\* C3: when the Range header resolves against the object length L to exactly
\* one interval [s, e), the HEAD response has status 206, Content-Range
\* "bytes s-(e-1)/L" and Content-Length e - s.
C3_SingleRange ==
    RangedHead =>
      \A s \in 0 .. ObjectLength, e \in 0 .. ObjectLength :
        (RangeParses(req.headers[RANGE]) /\ Resolved = << <<s, e>> >>)
        => /\ outcome = Returned
           /\ resp.status = 206
           /\ resp.headers[CONTENT_RANGE] =
                <<"bytes", ToString(s), ToString(e - 1), ToString(ObjectLength)>>
           /\ resp.headers[CONTENT_LENGTH] = e - s

C3_Witness ==
    /\ RangedHead
    /\ RangeParses(req.headers[RANGE])
    /\ Resolved = << <<1, 2>> >>
    /\ ObjectLength = 3
    /\ resp.status = 206

\* a range spec no byte of an object of the given length satisfies: a suffix
\* of no bytes, or a first byte at or after the end
Unsatisfiable(s, length) ==
    \/ s[1] = -1 /\ s[2] = 0
    \/ s[1] # -1 /\ s[1] >= length

NoSatisfiableInterval ==
    /\ RangeParses(req.headers[RANGE])
    /\ \A i \in 1 .. Len(req.headers[RANGE].specs) :
          Unsatisfiable(req.headers[RANGE].specs[i], ObjectLength)

\* C4: a HEAD whose Range header parses but has no satisfiable interval
\* against the object's Content-Length fails with InvalidRange, and
\* InvalidRange is raised in that case only.
C4_InvalidRange ==
    /\ RangedHead =>
         (outcome = Raised("InvalidRange", "") <=> NoSatisfiableInterval)
    /\ outcome.exc = "InvalidRange" => RangedHead

C4_Witness ==
    /\ RangedHead
    /\ Len(req.headers[RANGE].specs) = 2
    /\ NoSatisfiableInterval
    /\ ObjectLength > 0
    /\ outcome.exc = "InvalidRange"

\* the request without its Range header
Unranged(r) == [r EXCEPT !.headers = Del(r.headers, RANGE)]

\* C5: a HEAD whose Range header does not parse, or resolves to two or more
\* intervals, returns the response the same HEAD gets without a Range
\* header: same status, headers and body, no Content-Range, no error.
C5_Passthrough ==
    (RangedHead /\ (~RangeParses(req.headers[RANGE]) \/ Len(Resolved) >= 2))
    => /\ outcome = Returned
       /\ resp = Shape(Unranged(req), backend_resp).resp
       /\ ~Has(resp.headers, CONTENT_RANGE)
       /\ resp.headers[CONTENT_LENGTH] = ObjectLength
       /\ resp.status = backend_resp.status

C5_Witness ==
    /\ RangedHead
    /\ Len(Resolved) = 2
    /\ Resolved[1] # Resolved[2]
    /\ outcome = Returned

\* C6: the response of a PUT with a copy-source header has no header whose
\* name starts with x-amz-meta-, however many the backend response had, and
\* keeps every other header of the backend response.
C6_NoUserMetadata ==
    (/\ pc = "done"
     /\ req.method = "PUT"
     /\ Has(req.headers, COPY_SOURCE)
     /\ outcome = Returned)
    => /\ \A k \in DOMAIN resp.headers : ~HasMetaPrefix(k)
       /\ \A k \in DOMAIN backend_resp.headers :
             ~HasMetaPrefix(k) =>
                (Has(resp.headers, k) /\ resp.headers[k] = backend_resp.headers[k])
       /\ DOMAIN resp.headers \subseteq DOMAIN backend_resp.headers

C6_Witness ==
    /\ pc = "done"
    /\ req.method = "PUT"
    /\ Has(req.headers, COPY_SOURCE)
    /\ outcome = Returned
    /\ Cardinality({k \in DOMAIN backend_resp.headers : HasMetaPrefix(k)}) = MaxMeta
    /\ Has(resp.headers, <<"x", "amz", "metadata">>)

\* C7: a DELETE sent with the expansion query and answered 200 returns 204
\* with an empty body, and every chunk of the backend's report has been read,
\* in order, before the status and body are replaced; a DELETE without the
\* query (or answered with another status) returns the backend's response as
\* it is, no chunk read.
ChunksRead == [i \in 1 .. Cardinality(CallsOf("read_chunk")) |->
                 <<"chunk", calls[2 + i].ret>>]

C10_CallOrder ==
    /\ (req.method = "PUT") =>
        /\ Len(calls) >= 1 /\ calls[1].op = "stamp"
        /\ Has(req.headers, X_TIMESTAMP)
        /\ CallsOf("check_copy_source") \subseteq {2}
        /\ CallsOf("get_response") \subseteq {3}
        /\ Len(calls) >= 3 => (calls[2].op = "check_copy_source" /\ calls[2].ret = "ok")
        /\ pc = "PUT_write" => (Len(calls) = 2 /\ calls[2].ret = "ok")
        /\ Len(calls) <= 3
    /\ (req.method \in {"GET", "HEAD"}) =>
        /\ CallsOf("get_object_info") \subseteq {2}
        /\ CallsOf("get_response") \subseteq {1, 3}
        /\ Len(calls) >= 2 =>
             /\ calls[1].op = "get_response"
             /\ calls[1].ret = "NoSuchKey"
             /\ calls[1].container = <<"bucket", "+versioning">>
             /\ calls[2].op = "get_object_info"
        /\ Len(calls) >= 3 =>
             /\ calls[2].ret = locals.version_id
             /\ calls[3].op = "get_response"
        /\ Len(calls) <= 3

C10_Witness ==
    /\ pc = "done"
    /\ req.method = "HEAD"
    /\ Len(calls) = 3
    /\ outcome = Returned

(***************************************************************************)
(* Properties of etree                                                      *)
(***************************************************************************)
\* C8 (checked under SpecTree): after any sequence of text assignments, in
\* the output of tostring(tree, 'url') the text of an element whose tag is in
\* URLENCODE_BLACKLIST is the text assigned, the text of any other element is
\* the text assigned quoted exactly once, and no element has the urlencoded
\* attribute.
C8_UrlEncodedOnce ==
    (out.done /\ out.encoding_type = "url")
    => \A e \in Elements :
          /\ ~out.elems[e].urlencoded
          /\ out.elems[e].text =
               IF assigned[e].isNone THEN NoText
               ELSE IF TagOf[e] \in URLENCODE_BLACKLIST THEN assigned[e]
               ELSE Str(quote(assigned[e].s))

\* C9 as claimed (checked under SpecNs): no tree fromstring returns has a
\* namespaced tag, at any depth.
C9_NoNamespacedTag ==
    ns_phase.step = "parsed" => \A n \in Nodes : ~Namespaced(ns_tree[n].tag)

\* C9 as amended: in a tree fromstring returns no tag is in the S3 namespace
\* or in the default namespace in scope at its element, and the local names
\* are kept; a tag is namespaced exactly when its element was written with a
\* prefix bound to another namespace.  Parsing tostring(tree, use_s3ns=True)
\* gives no namespaced tag when no tag of the tree was in a namespace other
\* than S3's.
C9_S3AndDefaultStripped ==
    ns_phase.step = "parsed" =>
      /\ \A n \in Nodes :
            ~ns_doc[n].comment =>
              /\ TagUri(ns_tree[n].tag) # XMLNS_S3
              /\ Namespaced(ns_tree[n].tag) =>
                   TagUri(ns_tree[n].tag) # DocDefault(ns_doc, n)
              /\ Namespaced(ns_tree[n].tag) <=>
                   /\ ns_doc[n].prefix_ns \notin {"", XMLNS_S3}
                   /\ ns_doc[n].prefix_ns # DocDefault(ns_doc, n)
              /\ ns_tree[n].tag[Len(ns_tree[n].tag)] = LocalName[n]
      /\ (ns_phase.use_s3ns /\ ns_phase.plain) =>
            \A n \in Nodes : ~Namespaced(ns_tree[n].tag)

C9_Witness ==
    /\ ns_phase.step = "parsed"
    /\ ns_phase.use_s3ns
    /\ ns_phase.plain
    /\ ns_doc[1].xmlns = XMLNS_S3
    /\ ns_doc[2].xmlns = XMLNS_OTHER
    /\ \A n \in Nodes : ~ns_doc[n].comment /\ ns_tree[n].tag = <<LocalName[n]>>

====
